---- MODULE Spec2Model ----
(***************************************************************************)
(* Model of the security configuration loader of the Landing Zone          *)
(* Accelerator (packages/@aws-accelerator/config/lib/security-config.ts).  *)
(*                                                                         *)
(* A YAML document is a record whose DOMAIN is the set of keys it writes;  *)
(* an omitted key is a key that is not in the DOMAIN.  JavaScript's         *)
(* `T | undefined` is an option: None is undefined, Some(v) is the value v. *)
(* A field holds an option exactly when its schema type is t.optional or   *)
(* its class declares it `| undefined`.  Leaf values of the documents are  *)
(* of the JavaScript type the schema names (a boolean where t.boolean is   *)
(* expected); what varies is presence, emptiness and enum membership.      *)
(***************************************************************************)
EXTENDS Integers, Sequences, FiniteSets, TLC

VARIABLES pc, op, path, content, result, error, log, ctorCalls,
          phase, stackProps, constructs, resources, created

loaderVars == <<pc, op, path, content, result, error, log, ctorCalls>>

stackVars == <<phase, stackProps, constructs, resources, created>>

vars == <<pc, op, path, content, result, error, log, ctorCalls,
          phase, stackProps, constructs, resources, created>>

None == <<>>
Some(v) == <<v>>

Undefined == <<>>

----------------------------------------------------------------------------
(* Bounds                                                                  *)

MaxStandards == 2
MaxKeySets == 2
MaxConstructs == 3

----------------------------------------------------------------------------
(* common-types.ts: the io-ts combinators the schema is written with       *)

Boolean == [kind |-> "boolean"]
String == [kind |-> "string"]
NonEmptyString == [kind |-> "nonEmptyString"]
Number == [kind |-> "number"]
Optional(s) == [kind |-> "optional", of |-> s]
Array(s) == [kind |-> "array", of |-> s]
Dictionary(s) == [kind |-> "dictionary", of |-> s]
Enums(n, vs) == [kind |-> "enums", name |-> n, values |-> vs]
Interface(p) == [kind |-> "interface", props |-> p]

Regions == {"us-east-1", "us-west-2", "eu-west-1"}
region == Enums("Region", Regions)

deploymentTargets ==
  Interface([organizationalUnits |-> Optional(Array(NonEmptyString)),
             accounts |-> Optional(Array(NonEmptyString)),
             excludedRegions |-> Optional(Array(NonEmptyString)),
             excludedAccounts |-> Optional(Array(NonEmptyString))])

shareTargets ==
  Interface([organizationalUnits |-> Optional(Array(NonEmptyString)),
             accounts |-> Optional(Array(NonEmptyString))])

tag == Interface([key |-> NonEmptyString, value |-> NonEmptyString])

lifecycleRuleConfig ==
  Interface([enabled |-> Optional(Boolean),
             id |-> Optional(NonEmptyString),
             expiration |-> Optional(Number),
             noncurrentVersionExpiration |-> Optional(Number)])

(* type.decode(u) succeeds *)
RECURSIVE Validate(_, _, _)
Validate(s, has, v) ==
  CASE s.kind = "optional" -> (~has) \/ Validate(s.of, TRUE, v)
    [] s.kind = "interface" ->
         has /\ \A k \in DOMAIN s.props :
                   Validate(s.props[k], k \in DOMAIN v,
                            IF k \in DOMAIN v THEN v[k] ELSE Undefined)
    [] s.kind = "array" -> has /\ \A i \in DOMAIN v : Validate(s.of, TRUE, v[i])
    [] s.kind = "dictionary" ->
         has /\ \A k \in DOMAIN v : k # "" /\ Validate(s.of, TRUE, v[k])
    [] s.kind = "enums" -> has /\ v \in s.values
    [] s.kind = "nonEmptyString" -> has /\ v # ""
    [] s.kind = "boolean" -> has /\ v \in BOOLEAN
    [] s.kind = "number" -> has /\ v \in Int
    [] s.kind = "string" -> has

(* the value type.decode(u) yields when it succeeds: every key of an       *)
(* interface is present in the output, an omitted optional one as          *)
(* undefined; keys the interface does not name are kept                    *)
RECURSIVE Decode(_, _, _)
Decode(s, has, v) ==
  CASE s.kind = "optional" -> IF has THEN Some(Decode(s.of, TRUE, v)) ELSE None
    [] s.kind = "interface" ->
         [k \in (DOMAIN v) \cup (DOMAIN s.props) |->
            IF k \in DOMAIN s.props
              THEN Decode(s.props[k], k \in DOMAIN v,
                          IF k \in DOMAIN v THEN v[k] ELSE Undefined)
              ELSE v[k]]
    [] s.kind = "array" -> [i \in DOMAIN v |-> Decode(s.of, TRUE, v[i])]
    [] s.kind = "dictionary" -> [k \in DOMAIN v |-> Decode(s.of, TRUE, v[k])]
    [] OTHER -> v

ParseError == "Could not parse content"

(* t.parse(type, content): the decoded value, or a thrown Error *)
parse(type, u) ==
  IF u # None /\ Validate(type, TRUE, u[1])
    THEN [ok |-> TRUE, value |-> Decode(type, TRUE, u[1])]
    ELSE [ok |-> FALSE, error |-> ParseError]

----------------------------------------------------------------------------
(* SecurityConfigTypes: the schema                                          *)

FrequencyType == {"FIFTEEN_MINUTES", "ONE_HOUR", "SIX_HOURS"}
DestinationType == {"S3"}
KeyRemovalPolicy == {"destroy", "retain", "snapshot"}
SecurityHubStandardNames ==
  {"AWS Foundational Security Best Practices v1.0.0",
   "CIS AWS Foundations Benchmark v1.2.0",
   "CIS AWS Foundations Benchmark v1.4.0",
   "NIST Special Publication 800-53 Revision 5",
   "PCI DSS v3.2.1"}
ExecutionFrequency ==
  {"One_Hour", "Three_Hours", "Six_Hours", "Twelve_Hours", "TwentyFour_Hours"}
ResourceLookupType == {"ResourceId", "Tag", "ResourceTypes"}
ParameterDataType == {"String", "StringList"}

s3PublicAccessBlockConfig ==
  Interface([enable |-> Boolean,
             excludeAccounts |-> Optional(Array(String))])

scpRevertChangesConfig ==
  Interface([enable |-> Boolean,
             snsTopicName |-> Optional(NonEmptyString)])

keyConfig ==
  Interface([name |-> NonEmptyString,
             alias |-> Optional(NonEmptyString),
             policy |-> Optional(NonEmptyString),
             description |-> Optional(NonEmptyString),
             enableKeyRotation |-> Optional(Boolean),
             enabled |-> Optional(Boolean),
             removalPolicy |-> Optional(Enums("KeyRemovalPolicy", KeyRemovalPolicy)),
             deploymentTargets |-> deploymentTargets])

(* macieConfig with the publishing frequency typed as any non-empty string *)
macieConfig_anyFrequency ==
  Interface([enable |-> Boolean,
             excludeRegions |-> Optional(Array(region)),
             policyFindingsPublishingFrequency |-> NonEmptyString,
             publishSensitiveDataFindings |-> Boolean,
             lifecycleRules |-> Optional(Array(lifecycleRuleConfig))])

macieConfig ==
  Interface([enable |-> Boolean,
             excludeRegions |-> Optional(Array(region)),
             policyFindingsPublishingFrequency |-> Enums("FrequencyType", FrequencyType),
             publishSensitiveDataFindings |-> Boolean,
             lifecycleRules |-> Optional(Array(lifecycleRuleConfig))])

guardDutyS3ProtectionConfig ==
  Interface([enable |-> Boolean,
             excludeRegions |-> Optional(Array(region))])

guardDutyEksProtectionConfig ==
  Interface([enable |-> Boolean,
             excludeRegions |-> Optional(Array(region))])

guardDutyExportFindingsConfig ==
  Interface([enable |-> Boolean,
             overrideExisting |-> Optional(Boolean),
             destinationType |-> Enums("DestinationType", DestinationType),
             exportFrequency |-> Enums("ExportFrequencyType", FrequencyType)])

guardDutyConfig ==
  Interface([enable |-> Boolean,
             excludeRegions |-> Optional(Array(region)),
             s3Protection |-> guardDutyS3ProtectionConfig,
             eksProtection |-> Optional(guardDutyEksProtectionConfig),
             exportConfiguration |-> guardDutyExportFindingsConfig,
             lifecycleRules |-> Optional(Array(lifecycleRuleConfig))])

auditManagerDefaultReportsDestinationConfig ==
  Interface([enable |-> Boolean,
             destinationType |-> Enums("DestinationType", DestinationType)])

auditManagerConfig ==
  Interface([enable |-> Boolean,
             excludeRegions |-> Optional(Array(region)),
             defaultReportsConfiguration |-> auditManagerDefaultReportsDestinationConfig,
             lifecycleRules |-> Optional(Array(lifecycleRuleConfig))])

detectiveConfig ==
  Interface([enable |-> Boolean,
             excludeRegions |-> Optional(Array(region))])

(* securityHubStandardConfig with the name typed as any non-empty string *)
securityHubStandardConfig_anyName ==
  Interface([name |-> NonEmptyString,
             deploymentTargets |-> Optional(deploymentTargets),
             enable |-> Boolean,
             controlsToDisable |-> Optional(Array(NonEmptyString))])

securityHubStandardConfig ==
  Interface([name |-> Enums("ExportFrequencyType", SecurityHubStandardNames),
             deploymentTargets |-> Optional(deploymentTargets),
             enable |-> Boolean,
             controlsToDisable |-> Optional(Array(NonEmptyString))])

securityHubConfig ==
  Interface([enable |-> Boolean,
             regionAggregation |-> Optional(Boolean),
             snsTopicName |-> Optional(String),
             notificationLevel |-> Optional(String),
             excludeRegions |-> Optional(Array(region)),
             standards |-> Array(securityHubStandardConfig)])

ebsDefaultVolumeEncryptionConfig ==
  Interface([enable |-> Boolean,
             kmsKey |-> Optional(NonEmptyString),
             excludeRegions |-> Optional(Array(region))])

documentConfig ==
  Interface([name |-> NonEmptyString,
             template |-> NonEmptyString])

documentSetConfig ==
  Interface([shareTargets |-> shareTargets,
             documents |-> Array(documentConfig)])

ssmAutomationConfig ==
  Interface([excludeRegions |-> Optional(Array(region)),
             documentSets |-> Array(documentSetConfig)])

centralSecurityServicesConfig ==
  Interface([delegatedAdminAccount |-> NonEmptyString,
             ebsDefaultVolumeEncryption |-> ebsDefaultVolumeEncryptionConfig,
             s3PublicAccessBlock |-> s3PublicAccessBlockConfig,
             scpRevertChangesConfig |-> Optional(scpRevertChangesConfig),
             macie |-> macieConfig,
             guardduty |-> guardDutyConfig,
             auditManager |-> Optional(auditManagerConfig),
             detective |-> Optional(detectiveConfig),
             securityHub |-> securityHubConfig,
             ssmAutomation |-> ssmAutomationConfig])

keyManagementServiceConfig ==
  Interface([keySets |-> Array(keyConfig)])

accessAnalyzerConfig ==
  Interface([enable |-> Boolean])

iamPasswordPolicyConfig ==
  Interface([allowUsersToChangePassword |-> Boolean,
             hardExpiry |-> Boolean,
             requireUppercaseCharacters |-> Boolean,
             requireLowercaseCharacters |-> Boolean,
             requireSymbols |-> Boolean,
             requireNumbers |-> Boolean,
             minimumPasswordLength |-> Number,
             passwordReusePrevention |-> Number,
             maxPasswordAge |-> Number])

customRuleLambdaType ==
  Interface([sourceFilePath |-> NonEmptyString,
             handler |-> NonEmptyString,
             runtime |-> NonEmptyString,
             rolePolicyFile |-> NonEmptyString,
             timeout |-> Optional(Number)])

triggeringResourceType ==
  Interface([lookupType |-> Enums("ResourceLookupType", ResourceLookupType),
             lookupKey |-> NonEmptyString,
             lookupValue |-> Array(NonEmptyString)])

customRuleConfigType ==
  Interface([lambda |-> customRuleLambdaType,
             periodic |-> Optional(Boolean),
             maximumExecutionFrequency |-> Enums("ExecutionFrequency", ExecutionFrequency),
             configurationChanges |-> Optional(Boolean),
             triggeringResources |-> triggeringResourceType])

remediationParametersConfigType ==
  Interface([name |-> NonEmptyString,
             value |-> NonEmptyString,
             type |-> Enums("ParameterDataType", ParameterDataType)])

configRuleRemediationType ==
  Interface([rolePolicyFile |-> NonEmptyString,
             automatic |-> Boolean,
             targetId |-> NonEmptyString,
             targetAccountName |-> Optional(NonEmptyString),
             targetVersion |-> Optional(NonEmptyString),
             targetDocumentLambda |-> Optional(customRuleLambdaType),
             retryAttemptSeconds |-> Optional(Number),
             maximumAutomaticAttempts |-> Optional(Number),
             parameters |-> Optional(Array(remediationParametersConfigType))])

configRule ==
  Interface([name |-> NonEmptyString,
             description |-> Optional(NonEmptyString),
             identifier |-> Optional(NonEmptyString),
             inputParameters |-> Optional(Dictionary(NonEmptyString)),
             complianceResourceTypes |-> Optional(Array(NonEmptyString)),
             type |-> Optional(NonEmptyString),
             customRule |-> Optional(customRuleConfigType),
             remediation |-> Optional(configRuleRemediationType),
             tags |-> Optional(Array(tag))])

awsConfigRuleSet ==
  Interface([deploymentTargets |-> deploymentTargets,
             rules |-> Array(configRule)])

awsConfigAggregation ==
  Interface([enable |-> Boolean,
             delegatedAdminAccount |-> Optional(NonEmptyString)])

awsConfig ==
  Interface([enableConfigurationRecorder |-> Boolean,
             enableDeliveryChannel |-> Optional(Boolean),
             overrideExisting |-> Optional(Boolean),
             aggregation |-> Optional(awsConfigAggregation),
             ruleSets |-> Array(awsConfigRuleSet)])

metricConfig ==
  Interface([filterName |-> NonEmptyString,
             logGroupName |-> NonEmptyString,
             filterPattern |-> NonEmptyString,
             metricNamespace |-> NonEmptyString,
             metricName |-> NonEmptyString,
             metricValue |-> NonEmptyString])

metricSetConfig ==
  Interface([regions |-> Optional(Array(NonEmptyString)),
             deploymentTargets |-> deploymentTargets,
             metrics |-> Array(metricConfig)])

alarmConfig ==
  Interface([alarmName |-> NonEmptyString,
             alarmDescription |-> NonEmptyString,
             snsAlertLevel |-> Optional(NonEmptyString),
             snsTopicName |-> Optional(NonEmptyString),
             metricName |-> NonEmptyString,
             namespace |-> NonEmptyString,
             comparisonOperator |-> NonEmptyString,
             evaluationPeriods |-> Number,
             period |-> Number,
             statistic |-> NonEmptyString,
             threshold |-> Number,
             treatMissingData |-> NonEmptyString])

alarmSetConfig ==
  Interface([regions |-> Optional(Array(NonEmptyString)),
             deploymentTargets |-> deploymentTargets,
             alarms |-> Array(alarmConfig)])

encryptionConfig ==
  Interface([kmsKeyName |-> Optional(NonEmptyString),
             kmsKeyArn |-> Optional(NonEmptyString),
             useLzaManagedKey |-> Optional(Boolean)])

logGroupsConfig ==
  Interface([logGroupName |-> NonEmptyString,
             logRetentionInDays |-> Number,
             terminationProtected |-> Optional(Boolean),
             encryption |-> Optional(encryptionConfig),
             deploymentTargets |-> deploymentTargets])

cloudWatchConfig ==
  Interface([metricSets |-> Array(metricSetConfig),
             alarmSets |-> Array(alarmSetConfig),
             logGroups |-> Optional(Array(logGroupsConfig))])

securityConfig ==
  Interface([centralSecurityServices |-> centralSecurityServicesConfig,
             accessAnalyzer |-> accessAnalyzerConfig,
             iamPasswordPolicy |-> iamPasswordPolicyConfig,
             awsConfig |-> awsConfig,
             cloudWatch |-> cloudWatchConfig,
             keyManagementService |-> Optional(keyManagementServiceConfig)])

----------------------------------------------------------------------------
(* The configuration classes: the object `new C()` builds from the field    *)
(* initializers                                                             *)

DeploymentTargets ==
  [organizationalUnits |-> <<>>, accounts |-> <<>>,
   excludedRegions |-> <<>>, excludedAccounts |-> <<>>]

S3PublicAccessBlockConfig ==
  [enable |-> FALSE, excludeAccounts |-> Some(<<>>)]

ScpRevertChangesConfig ==
  [enable |-> FALSE, snsTopicName |-> None]

KeyConfig ==
  [name |-> "", alias |-> Some(""), policy |-> Some(""), description |-> Some(""),
   enableKeyRotation |-> Some(TRUE), enabled |-> Some(TRUE),
   removalPolicy |-> Some("retain"), deploymentTargets |-> DeploymentTargets]

KeyManagementServiceConfig ==
  [keySets |-> <<>>]

MacieConfig ==
  [enable |-> FALSE, excludeRegions |-> Some(<<>>),
   policyFindingsPublishingFrequency |-> "FIFTEEN_MINUTES",
   publishSensitiveDataFindings |-> TRUE, lifecycleRules |-> None]

GuardDutyS3ProtectionConfig ==
  [enable |-> FALSE, excludeRegions |-> Some(<<>>)]

GuardDutyExportFindingsConfig ==
  [enable |-> FALSE, overrideExisting |-> Some(FALSE),
   destinationType |-> "S3", exportFrequency |-> "FIFTEEN_MINUTES"]

GuardDutyConfig ==
  [enable |-> FALSE, excludeRegions |-> Some(<<>>),
   s3Protection |-> GuardDutyS3ProtectionConfig,
   eksProtection |-> None,
   exportConfiguration |-> GuardDutyExportFindingsConfig,
   lifecycleRules |-> None]

SecurityHubConfig ==
  [enable |-> FALSE, regionAggregation |-> Some(FALSE), snsTopicName |-> None,
   notificationLevel |-> None, excludeRegions |-> Some(<<>>), standards |-> <<>>]

EbsDefaultVolumeEncryptionConfig ==
  [enable |-> FALSE, kmsKey |-> None, excludeRegions |-> Some(<<>>)]

SsmAutomationConfig ==
  [excludeRegions |-> Some(<<>>), documentSets |-> <<>>]

CentralSecurityServicesConfig ==
  [delegatedAdminAccount |-> "Audit",
   ebsDefaultVolumeEncryption |-> EbsDefaultVolumeEncryptionConfig,
   s3PublicAccessBlock |-> S3PublicAccessBlockConfig,
   scpRevertChangesConfig |-> Some(ScpRevertChangesConfig),
   snsSubscriptions |-> <<>>,
   macie |-> MacieConfig,
   guardduty |-> GuardDutyConfig,
   auditManager |-> None,
   detective |-> None,
   securityHub |-> SecurityHubConfig,
   ssmAutomation |-> SsmAutomationConfig]

AccessAnalyzerConfig ==
  [enable |-> FALSE]

IamPasswordPolicyConfig ==
  [allowUsersToChangePassword |-> TRUE,
   hardExpiry |-> FALSE,
   requireUppercaseCharacters |-> TRUE,
   requireLowercaseCharacters |-> TRUE,
   requireSymbols |-> TRUE,
   requireNumbers |-> TRUE,
   minimumPasswordLength |-> 14,
   passwordReusePrevention |-> 24,
   maxPasswordAge |-> 90]

AwsConfig ==
  [enableConfigurationRecorder |-> TRUE, enableDeliveryChannel |-> None,
   overrideExisting |-> None, aggregation |-> None, ruleSets |-> <<>>]

CloudWatchConfig ==
  [metricSets |-> <<>>, alarmSets |-> <<>>, logGroups |-> None]

FILENAME == "security-config.yaml"

(* the field initializers of class SecurityConfig *)
SecurityConfigFields ==
  [centralSecurityServices |-> CentralSecurityServicesConfig,
   accessAnalyzer |-> AccessAnalyzerConfig,
   iamPasswordPolicy |-> IamPasswordPolicyConfig,
   awsConfig |-> AwsConfig,
   cloudWatch |-> CloudWatchConfig,
   keyManagementService |-> Some(KeyManagementServiceConfig)]

(* Object.assign(target, source): every own key of source is written to    *)
(* target, the keys whose value is undefined included; it does not descend  *)
(* into the values                                                          *)
ObjectAssign(target, source) ==
  [k \in (DOMAIN target) \cup (DOMAIN source) |->
     IF k \in DOMAIN source THEN source[k] ELSE target[k]]

(* a constructor that never assigns the values it is given *)
SecurityConfig_keepsDefaults(values) ==
  SecurityConfigFields

(* new SecurityConfig(values); values is None when the argument is omitted *)
SecurityConfig(values) ==
  IF values # None
    THEN ObjectAssign(SecurityConfigFields, values[1])
    ELSE SecurityConfigFields

(* getDelegatedAccountName answering the class default *)
getDelegatedAccountName_default(this) ==
  CentralSecurityServicesConfig.delegatedAdminAccount

getDelegatedAccountName(this) ==
  this.centralSecurityServices.delegatedAdminAccount

----------------------------------------------------------------------------
(* The configuration documents the loader is run on                         *)

With(d, k, v) == [x \in (DOMAIN d) \cup {k} |-> IF x = k THEN v ELSE d[x]]
Without(d, k) == [x \in (DOMAIN d) \ {k} |-> d[x]]

(* every document d has with one key left out *)
OneKeyLess(d) == {Without(d, k) : k \in DOMAIN d}

SeqsUpTo(S, n) == UNION {[1..m -> S] : m \in 0..n}

RootTargets == [organizationalUnits |-> <<"Root">>]

ExampleMacie ==
  [enable |-> TRUE, excludeRegions |-> <<>>,
   policyFindingsPublishingFrequency |-> "FIFTEEN_MINUTES",
   publishSensitiveDataFindings |-> TRUE]

MacieDocs ==
  {[ExampleMacie EXCEPT !.policyFindingsPublishingFrequency = f] :
      f \in {"FIFTEEN_MINUTES", "ONE_HOUR", "SIX_HOURS", "DAILY", ""}}
    \cup OneKeyLess(ExampleMacie)

ExampleExportConfiguration ==
  [enable |-> TRUE, overrideExisting |-> TRUE,
   destinationType |-> "S3", exportFrequency |-> "FIFTEEN_MINUTES"]

ExportConfigurationDocs ==
  {[ExampleExportConfiguration EXCEPT !.destinationType = d, !.exportFrequency = f] :
      d \in {"S3", "CloudWatch"},
      f \in {"FIFTEEN_MINUTES", "ONE_HOUR", "SIX_HOURS", "TWELVE_HOURS"}}
    \cup OneKeyLess(ExampleExportConfiguration)

ExampleGuardDuty ==
  [enable |-> TRUE, excludeRegions |-> <<>>,
   s3Protection |-> [enable |-> TRUE, excludeRegions |-> <<>>],
   eksProtection |-> [enable |-> TRUE, excludeRegions |-> <<>>],
   exportConfiguration |-> ExampleExportConfiguration]

GuardDutyDocs ==
  {[ExampleGuardDuty EXCEPT !.exportConfiguration = x] : x \in ExportConfigurationDocs}
    \cup OneKeyLess(ExampleGuardDuty)
    \cup {[ExampleGuardDuty EXCEPT !.excludeRegions = <<"us-east-1", "mars-1">>]}

ExampleStandard ==
  [name |-> "AWS Foundational Security Best Practices v1.0.0",
   deploymentTargets |-> RootTargets,
   enable |-> TRUE,
   controlsToDisable |-> <<"IAM.1", "EC2.10">>]

StandardDocs ==
  {[name |-> n, enable |-> TRUE] :
      n \in {"AWS Foundational Security Best Practices v1.0.0",
             "CIS AWS Foundations Benchmark v1.2.0",
             "CIS AWS Foundations Benchmark v1.4.0",
             "NIST Special Publication 800-53 Revision 5",
             "PCI DSS v3.2.1",
             "CIS AWS Foundations Benchmark v3.0.0"}}
    \cup {ExampleStandard,
          [ExampleStandard EXCEPT !.enable = FALSE],
          Without(ExampleStandard, "name"),
          [ExampleStandard EXCEPT !.controlsToDisable = <<"">>]}

ExampleSecurityHub ==
  [enable |-> TRUE, regionAggregation |-> TRUE, excludeRegions |-> <<>>,
   standards |-> <<ExampleStandard>>]

SecurityHubDocs ==
  {[ExampleSecurityHub EXCEPT !.standards = x] : x \in SeqsUpTo(StandardDocs, MaxStandards)}
    \cup OneKeyLess(ExampleSecurityHub)

ScpRevertChangesDocs ==
  {[enable |-> TRUE, snsTopicName |-> "Security"],
   [enable |-> TRUE],
   [enable |-> FALSE, snsTopicName |-> ""],
   [snsTopicName |-> "Security"]}

ExampleCentralSecurityServices ==
  [delegatedAdminAccount |-> "Audit",
   ebsDefaultVolumeEncryption |-> [enable |-> TRUE, excludeRegions |-> <<>>],
   s3PublicAccessBlock |-> [enable |-> TRUE, excludeAccounts |-> <<>>],
   scpRevertChangesConfig |-> [enable |-> TRUE, snsTopicName |-> "Security"],
   guardduty |-> ExampleGuardDuty,
   macie |-> ExampleMacie,
   snsSubscriptions |-> <<>>,
   securityHub |-> ExampleSecurityHub,
   ssmAutomation |-> [documentSets |-> <<>>]]

CentralSecurityServicesDocs ==
  {[ExampleCentralSecurityServices EXCEPT !.delegatedAdminAccount = x] :
      x \in {"Audit", "SecurityTooling", ""}}
    \cup {[ExampleCentralSecurityServices EXCEPT !.scpRevertChangesConfig = x] :
            x \in ScpRevertChangesDocs}
    \cup {[ExampleCentralSecurityServices EXCEPT !.macie = x] : x \in MacieDocs}
    \cup {[ExampleCentralSecurityServices EXCEPT !.guardduty = x] : x \in GuardDutyDocs}
    \cup {[ExampleCentralSecurityServices EXCEPT !.securityHub = x] : x \in SecurityHubDocs}
    \cup OneKeyLess(ExampleCentralSecurityServices)
    \cup {With(ExampleCentralSecurityServices, "detective", [enable |-> TRUE])}

ExampleIamPasswordPolicy ==
  [allowUsersToChangePassword |-> TRUE,
   hardExpiry |-> FALSE,
   requireUppercaseCharacters |-> TRUE,
   requireLowercaseCharacters |-> TRUE,
   requireSymbols |-> TRUE,
   requireNumbers |-> TRUE,
   minimumPasswordLength |-> 14,
   passwordReusePrevention |-> 24,
   maxPasswordAge |-> 90]

IamPasswordPolicyDocs ==
  {ExampleIamPasswordPolicy,
   [ExampleIamPasswordPolicy EXCEPT !.hardExpiry = TRUE, !.minimumPasswordLength = 8],
   [ExampleIamPasswordPolicy EXCEPT !.requireSymbols = FALSE, !.maxPasswordAge = 0]}
    \cup OneKeyLess(ExampleIamPasswordPolicy)

AccessAnalyzerDocs == {[enable |-> TRUE], [enable |-> FALSE], <<>>}

ExampleKey ==
  [name |-> "ExampleKey",
   deploymentTargets |-> RootTargets,
   alias |-> "alias/example/key",
   policy |-> "path/to/policy.json",
   description |-> "Example KMS key",
   enabled |-> TRUE,
   enableKeyRotation |-> TRUE,
   removalPolicy |-> "retain"]

KeyDocs ==
  {ExampleKey,
   [name |-> "BareKey", deploymentTargets |-> RootTargets],
   [name |-> "OffKey", deploymentTargets |-> RootTargets, enabled |-> FALSE,
    enableKeyRotation |-> FALSE, removalPolicy |-> "destroy"],
   [ExampleKey EXCEPT !.removalPolicy = "delete"],
   [ExampleKey EXCEPT !.name = ""],
   Without(ExampleKey, "deploymentTargets")}

KeyManagementServiceDocs ==
  {[keySets |-> x] : x \in SeqsUpTo(KeyDocs, MaxKeySets)} \cup {<<>>}

(* the custom rule of the AwsConfigRuleSet.rules example; its               *)
(* `inputParameters:` is written without a value, which t.optional takes as *)
(* an omitted key                                                           *)
ExampleCustomRule ==
  [name |-> "accelerator-attach-ec2-instance-profile",
   type |-> "Custom",
   description |-> "Custom role to remediate ec2 instance profile to EC2 instances",
   customRule |->
     [lambda |-> [sourceFilePath |-> "custom-config-rules/attach-ec2-instance-profile.zip",
                  handler |-> "index.handler",
                  runtime |-> "nodejs14.x",
                  timeout |-> 3],
      periodic |-> TRUE,
      maximumExecutionFrequency |-> "Six_Hours",
      configurationChanges |-> TRUE,
      triggeringResources |-> [lookupType |-> "ResourceTypes",
                               lookupKey |-> "ResourceTypes",
                               lookupValue |-> <<"AWS::EC2::Instance">>]]]

ExampleManagedRule ==
  [name |-> "accelerator-iam-user-group-membership-check",
   complianceResourceTypes |-> <<"AWS::IAM::User">>,
   identifier |-> "IAM_USER_GROUP_MEMBERSHIP_CHECK"]

(* the example's custom rule with the role policy file added *)
CustomRuleWithRolePolicy ==
  [ExampleCustomRule EXCEPT
     !.customRule.lambda =
        With(ExampleCustomRule.customRule.lambda, "rolePolicyFile",
             "custom-config-rules/attach-ec2-instance-profile-detection-role.json")]

RuleDocs ==
  {ExampleCustomRule, ExampleManagedRule, CustomRuleWithRolePolicy,
   [ExampleCustomRule EXCEPT !.customRule.maximumExecutionFrequency = "Two_Hours"],
   Without(ExampleManagedRule, "name"),
   With(ExampleManagedRule, "inputParameters", [maxAge |-> "90"]),
   With(ExampleManagedRule, "inputParameters", [maxAge |-> ""]),
   With(ExampleManagedRule, "tags", <<[key |-> "Environment", value |-> "prod"]>>)}

ExampleAwsConfig ==
  [enableConfigurationRecorder |-> TRUE,
   enableDeliveryChannel |-> TRUE,
   overrideExisting |-> FALSE,
   aggregation |-> [enable |-> TRUE, delegatedAdminAccount |-> "LogArchive"],
   ruleSets |-> <<[deploymentTargets |-> RootTargets,
                   rules |-> <<ExampleManagedRule>>]>>]

AwsConfigDocs ==
  {[ExampleAwsConfig EXCEPT !.ruleSets[1].rules = <<r>>] : r \in RuleDocs}
    \cup {[ExampleAwsConfig EXCEPT !.ruleSets[1].rules = <<ExampleCustomRule, ExampleManagedRule>>],
          [ExampleAwsConfig EXCEPT !.ruleSets[1].rules = <<CustomRuleWithRolePolicy, ExampleManagedRule>>],
          [ExampleAwsConfig EXCEPT !.ruleSets = <<>>],
          [ExampleAwsConfig EXCEPT !.ruleSets[1] = [rules |-> <<ExampleManagedRule>>]]}
    \cup OneKeyLess(ExampleAwsConfig)

(* logGroups of the CloudWatchConfig example *)
ExampleCloudWatchLogGroups ==
  <<[name |-> "Log1",
     terminationProtected |-> TRUE,
     encryption |-> [kmsKeyName |-> "key1"],
     deploymentTarget |-> [account |-> "Production"]],
    [name |-> "Log2",
     terminationProtected |-> FALSE,
     deploymentTarget |-> [organization |-> "Infrastructure"]]>>

(* logGroups of the LogGroupsConfig example *)
ExampleLogGroups ==
  <<[logGroupName |-> "Log1",
     logRetentionInDays |-> 365,
     terminationProtected |-> TRUE,
     encryption |-> [kmsKeyName |-> "key1"],
     deploymentTarget |-> [account |-> "Production"]],
    [logGroupName |-> "Log2",
     terminationProtected |-> FALSE,
     deploymentTarget |-> [organization |-> "Infrastructure"]]>>

(* two log groups written with the keys the schema names *)
SchemaLogGroups ==
  <<[logGroupName |-> "Log1",
     logRetentionInDays |-> 365,
     terminationProtected |-> TRUE,
     encryption |-> [kmsKeyName |-> "key1"],
     deploymentTargets |-> [accounts |-> <<"Production">>]],
    [logGroupName |-> "Log2",
     logRetentionInDays |-> 30,
     deploymentTargets |-> [organizationalUnits |-> <<"Infrastructure">>]]>>

DocumentedLogGroups == {ExampleCloudWatchLogGroups, ExampleLogGroups}

LogGroupsDocs ==
  DocumentedLogGroups
    \cup {SchemaLogGroups, <<>>, <<SchemaLogGroups[2]>>,
          <<SchemaLogGroups[1], ExampleLogGroups[1]>>,
          <<SchemaLogGroups[1], Without(SchemaLogGroups[2], "logRetentionInDays")>>,
          <<SchemaLogGroups[1], With(SchemaLogGroups[2], "logGroupName", "")>>}

ExampleCloudWatch ==
  [metricSets |->
     <<[regions |-> <<"us-east-1">>,
        deploymentTargets |-> RootTargets,
        metrics |-> <<[filterName |-> "MetricFilter",
                       logGroupName |-> "aws-controltower/CloudTrailLogs",
                       filterPattern |-> "{$.userIdentity.type=Root}",
                       metricNamespace |-> "LogMetrics",
                       metricName |-> "RootAccountUsage",
                       metricValue |-> "1",
                       treatMissingData |-> "notBreaching"]>>]>>,
   alarmSets |->
     <<[regions |-> <<"us-east-1">>,
        deploymentTargets |-> RootTargets,
        alarms |-> <<[alarmName |-> "CIS-1.1-RootAccountUsage",
                      alarmDescription |-> "Alarm for usage of root account",
                      snsAlertLevel |-> "Low",
                      metricName |-> "RootAccountUsage",
                      namespace |-> "LogMetrics",
                      comparisonOperator |-> "GreaterThanOrEqualToThreshold",
                      evaluationPeriods |-> 1,
                      period |-> 300,
                      statistic |-> "Sum",
                      threshold |-> 1,
                      treatMissingData |-> "notBreaching"]>>]>>]

CloudWatchDocs ==
  {With(ExampleCloudWatch, "logGroups", x) : x \in LogGroupsDocs}
    \cup {ExampleCloudWatch,
          [ExampleCloudWatch EXCEPT !.metricSets[1].metrics[1].metricValue = ""],
          [ExampleCloudWatch EXCEPT !.alarmSets[1].alarms[1] =
             Without(ExampleCloudWatch.alarmSets[1].alarms[1], "threshold")]}
    \cup OneKeyLess(ExampleCloudWatch)

(* the document all the class examples make up together *)
ExampleDocument ==
  [centralSecurityServices |-> ExampleCentralSecurityServices,
   accessAnalyzer |-> [enable |-> TRUE],
   iamPasswordPolicy |-> ExampleIamPasswordPolicy,
   awsConfig |-> ExampleAwsConfig,
   cloudWatch |-> With(ExampleCloudWatch, "logGroups", SchemaLogGroups),
   keyManagementService |-> [keySets |-> <<ExampleKey>>]]

Sections ==
  {"centralSecurityServices", "accessAnalyzer", "iamPasswordPolicy",
   "awsConfig", "cloudWatch", "keyManagementService"}

SectionDocs(k) ==
  CASE k = "centralSecurityServices" -> CentralSecurityServicesDocs
    [] k = "accessAnalyzer" -> AccessAnalyzerDocs
    [] k = "iamPasswordPolicy" -> IamPasswordPolicyDocs
    [] k = "awsConfig" -> AwsConfigDocs
    [] k = "cloudWatch" -> CloudWatchDocs
    [] k = "keyManagementService" -> KeyManagementServiceDocs

(* documents that differ from the example in one section, with and without *)
(* a keyManagementService section of their own                             *)
Documents ==
  LET varied == UNION {{With(ExampleDocument, k, x) : x \in SectionDocs(k)} : k \in Sections}
                  \cup OneKeyLess(ExampleDocument)
  IN varied \cup {Without(d, "keyManagementService") : d \in varied}
            \cup {With(ExampleDocument, "homeRegion", "us-east-1")}

(* a file's or string's content: text that is not YAML, text that holds no *)
(* document, or the text of a document                                      *)
Contents ==
  {[kind |-> "malformed"], [kind |-> "empty"]}
    \cup {[kind |-> "mapping", doc |-> d] : d \in Documents}

----------------------------------------------------------------------------
(* The loader                                                               *)

YAMLException == "YAMLException"
ENOENT == "ENOENT: no such file or directory"
LoadFromStringError == "could not load configuration"

Dirs == {"config", "/tmp/accelerator-config"}

(* path.join(dir, name) *)
Join(dir, name) == <<dir, name>>

(* yaml.load(text): the document, undefined for a text without one, or a   *)
(* thrown YAMLException                                                     *)
yamlLoad(c) ==
  CASE c.kind = "malformed" -> [ok |-> FALSE, error |-> YAMLException]
    [] c.kind = "empty" -> [ok |-> TRUE, value |-> None]
    [] c.kind = "mapping" -> [ok |-> TRUE, value |-> Some(c.doc)]

(* t.parse(SecurityConfigTypes.securityConfig, yaml.load(text)) *)
parseContent(c) ==
  LET y == yamlLoad(c)
  IN IF y.ok THEN parse(securityConfig, y.value) ELSE y

Returned(cfg) ==
  [pc |-> "returned", result |-> Some(cfg), error |-> "", log |-> <<>>, ctorCalls |-> 1]

Thrown(e, entries) ==
  [pc |-> "thrown", result |-> None, error |-> e, log |-> entries, ctorCalls |-> 0]

ErrorEntry(m) == [level |-> "error", message |-> m]

(* loadFromString without its catch block: the underlying error escapes *)
loadFromString_rethrows(c) ==
  LET v == parseContent(c)
  IN IF v.ok
       THEN Returned(SecurityConfig(Some(v.value)))
       ELSE Thrown(v.error, <<>>)

(* SecurityConfig.loadFromString(content) *)
loadFromString(c) ==
  LET v == parseContent(c)
  IN IF v.ok
       THEN Returned(SecurityConfig(Some(v.value)))
       ELSE Thrown(LoadFromStringError,
                   <<ErrorEntry("Error parsing input, global config undefined"),
                     ErrorEntry(v.error)>>)

(* load that builds a SecurityConfig before it reads and parses the file *)
load_constructsFirst(file) ==
  IF file = None
    THEN [Thrown(ENOENT, <<>>) EXCEPT !.ctorCalls = 1]
    ELSE LET v == parseContent(file[1])
         IN IF v.ok
              THEN Returned(SecurityConfig(Some(v.value)))
              ELSE [Thrown(v.error, <<>>) EXCEPT !.ctorCalls = 1]

(* load that returns new SecurityConfig() whatever the file holds *)
load_ignoresValues(file) ==
  IF file = None
    THEN Thrown(ENOENT, <<>>)
    ELSE LET v == parseContent(file[1])
         IN IF v.ok
              THEN Returned(SecurityConfig(None))
              ELSE Thrown(v.error, <<>>)

(* load with loadFromString's catch block around parsing *)
load_catches(file) ==
  IF file = None
    THEN Thrown(ENOENT, <<>>)
    ELSE LET v == parseContent(file[1])
         IN IF v.ok
              THEN Returned(SecurityConfig(Some(v.value)))
              ELSE Thrown(LoadFromStringError,
                          <<ErrorEntry("Error parsing input, global config undefined"),
                            ErrorEntry(v.error)>>)

(* SecurityConfig.load(dir), file being what the file system holds at      *)
(* path.join(dir, FILENAME): None when there is no such file                *)
load(file) ==
  IF file = None
    THEN Thrown(ENOENT, <<>>)
    ELSE LET v == parseContent(file[1])
         IN IF v.ok
              THEN Returned(SecurityConfig(Some(v.value)))
              ELSE Thrown(v.error, <<>>)

Apply(o) ==
  /\ pc' = o.pc
  /\ result' = o.result
  /\ error' = o.error
  /\ log' = o.log
  /\ ctorCalls' = o.ctorCalls

Init ==
  /\ pc = "idle"
  /\ op = "none"
  /\ path = None
  /\ content = None
  /\ result = None
  /\ error = ""
  /\ log = <<>>
  /\ ctorCalls = 0
  /\ phase = "construct"
  /\ stackProps = None
  /\ constructs = <<>>
  /\ resources = <<>>
  /\ created = {}

LoadFromString ==
  /\ pc = "idle"
  /\ \E c \in Contents :
       /\ op' = "loadFromString"
       /\ path' = None
       /\ content' = Some(c)
       /\ Apply(loadFromString(c))
  /\ UNCHANGED stackVars

Load ==
  /\ pc = "idle"
  /\ \E dir \in Dirs, file \in {None} \cup {Some(c) : c \in Contents} :
       /\ op' = "load"
       /\ path' = Some(Join(dir, FILENAME))
       /\ content' = file
       /\ Apply(load(file))
  /\ UNCHANGED stackVars

(* new SecurityConfig() *)
New ==
  /\ pc = "idle"
  /\ op' = "new"
  /\ path' = None
  /\ content' = None
  /\ Apply(Returned(SecurityConfig(None)))
  /\ UNCHANGED stackVars

Next == LoadFromString \/ Load \/ New

Spec == Init /\ [][Next]_vars

----------------------------------------------------------------------------
(* aws-cdk-lib as the constructs call it.  The template of a stack is the  *)
(* sequence of its resources in the order the constructs add them.  A      *)
(* resource is [id, type, dependsOn, refs, properties]: dependsOn is its   *)
(* DependsOn attribute and refs are the resources its properties name with *)
(* Ref or Fn::GetAtt.  An id is the path of construct ids from the stack.  *)
(* The KMS key the constructs are handed is an opaque value: no resource   *)
(* is modelled for it.                                                      *)

Ref(id) == [Ref |-> id]
GetAtt(id, attr) == [GetAtt |-> id, attr |-> attr]

(* the tokens an environment-agnostic stack resolves its environment to *)
Aws_PARTITION == "${AWS::Partition}"
Aws_REGION == "${AWS::Region}"
Aws_ACCOUNT_ID == "${AWS::AccountId}"

Child(id, name) == Append(id, name)

(* node.tryFindChild on the stack: the resource of that id, if any *)
tryFindChild(rs, id) ==
  IF \E i \in 1..Len(rs) : rs[i].id = id THEN Some(id) ELSE None

(* provider.node.id *)
ProviderId(uniqueid) == <<uniqueid, "CustomResourceProvider">>

(* provider.node.findChild('Handler') *)
Handler(uniqueid) == Child(ProviderId(uniqueid), "Handler")

(* provider.serviceToken *)
serviceToken(uniqueid) == GetAtt(Handler(uniqueid), "Arn")

(* a provider whose function neither waits for its role nor names it *)
CustomResourceProvider_detachedRole(id) ==
  <<[id |-> Child(id, "Role"), type |-> "AWS::IAM::Role",
     dependsOn |-> {}, refs |-> {},
     properties |-> [AssumeRolePolicyDocument |-> "lambda.amazonaws.com"]],
    [id |-> Child(id, "Handler"), type |-> "AWS::Lambda::Function",
     dependsOn |-> {}, refs |-> {},
     properties |-> [Role |-> GetAtt(<<"LambdaExecutionRole">>, "Arn"),
                     Handler |-> "__entrypoint__.handler",
                     Runtime |-> "nodejs14.x", Timeout |-> 900, MemorySize |-> 128]]>>

(* new CustomResourceProvider: an execution role and the function using it *)
CustomResourceProvider(id) ==
  <<[id |-> Child(id, "Role"), type |-> "AWS::IAM::Role",
     dependsOn |-> {}, refs |-> {},
     properties |-> [AssumeRolePolicyDocument |-> "lambda.amazonaws.com"]],
    [id |-> Child(id, "Handler"), type |-> "AWS::Lambda::Function",
     dependsOn |-> {Child(id, "Role")}, refs |-> {Child(id, "Role")},
     properties |-> [Role |-> GetAtt(Child(id, "Role"), "Arn"),
                     Handler |-> "__entrypoint__.handler",
                     Runtime |-> "nodejs14.x", Timeout |-> 900, MemorySize |-> 128]]>>

(* cdk.CustomResourceProvider.getOrCreateProvider: one provider per stack  *)
(* and resource type                                                        *)
getOrCreateProvider(rs, uniqueid) ==
  IF tryFindChild(rs, Handler(uniqueid)) # None
    THEN rs
    ELSE rs \o CustomResourceProvider(ProviderId(uniqueid))

(* new cdk.CustomResource *)
CustomResource(id, props) ==
  [id |-> id, type |-> props.resourceType,
   dependsOn |-> {}, refs |-> {props.serviceToken.GetAtt} \cup props.refs,
   properties |-> With(props.properties, "ServiceToken", props.serviceToken)]

(* new cdk.aws_logs.LogGroup *)
LogGroup(id, props) ==
  [id |-> id, type |-> "AWS::Logs::LogGroup",
   dependsOn |-> {}, refs |-> {props.logGroupName.Ref},
   properties |-> [LogGroupName |-> props.logGroupName,
                   RetentionInDays |-> props.retention,
                   KmsKeyId |-> props.encryptionKey]]

(* node.addDependency *)
addDependency(rs, id, dependency) ==
  [i \in 1..Len(rs) |->
     IF rs[i].id = id THEN [rs[i] EXCEPT !.dependsOn = @ \cup {dependency}]
     ELSE rs[i]]

(* a log group added by every construct of the provider *)
ProviderLogGroup_perConstruct(rs, uniqueid, props) ==
  Append(rs, LogGroup(Child(ProviderId(uniqueid), "LogGroup"),
    [logGroupName |-> [prefix |-> "/aws/lambda/", Ref |-> Handler(uniqueid)],
     retention |-> props.logRetentionInDays,
     encryptionKey |-> props.kmsKey]))

(* the provider's log group, `${provider.node.id}LogGroup`, created by the *)
(* first construct of the provider and found by the later ones             *)
ProviderLogGroup(rs, uniqueid, props) ==
  LET id == Child(ProviderId(uniqueid), "LogGroup")
  IN IF tryFindChild(rs, id) # None
       THEN rs
       ELSE Append(rs, LogGroup(id,
              [logGroupName |-> [prefix |-> "/aws/lambda/", Ref |-> Handler(uniqueid)],
               retention |-> props.logRetentionInDays,
               encryptionKey |-> props.kmsKey]))

(* stack.formatArn with an empty region and a slash resource name *)
formatArn(c) ==
  <<"arn", Aws_PARTITION, c.service, c.region, c.account,
    c.resource, "/", c.resourceName>>


----------------------------------------------------------------------------
(* constructs/lib/aws-organizations/account.ts                              *)

ENROLL_ACCOUNT_TYPE == "Custom::InviteAccountToOrganization"

(* an Account that does not make its resource wait for the log group *)
Account_noDependency(rs, id, props) ==
  LET provider == getOrCreateProvider(rs, ENROLL_ACCOUNT_TYPE)
      resource ==
        CustomResource(Child(id, "Resource"),
          [resourceType |-> ENROLL_ACCOUNT_TYPE,
           serviceToken |-> serviceToken(ENROLL_ACCOUNT_TYPE),
           refs |-> {},
           properties |->
             [accountId |-> props.accountId,
              partition |-> Aws_PARTITION,
              roleArn |-> formatArn([service |-> "iam", region |-> "",
                                     account |-> props.accountId,
                                     resource |-> "role",
                                     resourceName |-> props.assumeRoleName])]])
  IN ProviderLogGroup(Append(provider, resource), ENROLL_ACCOUNT_TYPE, props)

(* new Account(scope, id, props) *)
Account(rs, id, props) ==
  LET provider == getOrCreateProvider(rs, ENROLL_ACCOUNT_TYPE)
      resource ==
        CustomResource(Child(id, "Resource"),
          [resourceType |-> ENROLL_ACCOUNT_TYPE,
           serviceToken |-> serviceToken(ENROLL_ACCOUNT_TYPE),
           refs |-> {},
           properties |->
             [accountId |-> props.accountId,
              partition |-> Aws_PARTITION,
              roleArn |-> formatArn([service |-> "iam", region |-> "",
                                     account |-> props.accountId,
                                     resource |-> "role",
                                     resourceName |-> props.assumeRoleName])]])
      logGroup == ProviderLogGroup(Append(provider, resource), ENROLL_ACCOUNT_TYPE, props)
  IN addDependency(logGroup, Child(id, "Resource"),
                   Child(ProviderId(ENROLL_ACCOUNT_TYPE), "LogGroup"))

----------------------------------------------------------------------------
(* Constructs whose code is known through their tests: each obtains the    *)
(* provider of its resource type and adds one custom resource carrying the *)
(* properties the tests show.  The tests show no DependsOn on these        *)
(* resources, and none is modelled.  The stacks of these tests have no     *)
(* environment, so the stack's region is the token Aws_REGION.             *)

(* the resource type of each construct that the tests name; the test of    *)
(* SecurityStack names four of its six and counts six providers: the key   *)
(* lookup and the EBS types are the two it does not show                   *)
ResourceType ==
  [EndpointAddresses |-> "Custom::ResolverEndpointAddresses",
   EnableSharingWithAwsOrganization |-> "Custom::EnableSharingWithAwsOrganization",
   EnablePolicyType |-> "Custom::EnablePolicyType",
   RegisterDelegatedAdministrator |-> "Custom::OrganizationsRegisterDelegatedAdministrator",
   SsmParameterLookup |-> "Custom::SsmGetParameterValue",
   MacieExportConfigClassification |-> "Custom::MaciePutClassificationExportConfiguration",
   GuardDutyPublishingDestination |-> "Custom::GuardDutyCreatePublishingDestinationCommand",
   EbsDefaultEncryption |-> "Custom::EbsDefaultVolumeEncryption",
   PasswordPolicy |-> "Custom::IamUpdateAccountPasswordPolicy",
   SecurityHubStandards |-> "Custom::SecurityHubBatchEnableStandards"]

(* an EndpointAddresses that obtains the provider and adds no resource *)
EndpointAddresses_noResource(rs, id, props) ==
  getOrCreateProvider(rs, ResourceType.EndpointAddresses)

(* new EndpointAddresses(scope, id, props) *)
EndpointAddresses(rs, id, props) ==
  Append(getOrCreateProvider(rs, ResourceType.EndpointAddresses),
    CustomResource(Child(id, "Resource"),
      [resourceType |-> ResourceType.EndpointAddresses,
       serviceToken |-> serviceToken(ResourceType.EndpointAddresses),
       refs |-> {},
       properties |-> [endpointId |-> props.endpointId, region |-> Aws_REGION]]))

(* new EnableSharingWithAwsOrganization(scope, id, props) *)
EnableSharingWithAwsOrganization(rs, id, props) ==
  Append(getOrCreateProvider(rs, ResourceType.EnableSharingWithAwsOrganization),
    CustomResource(Child(id, "Resource"),
      [resourceType |-> ResourceType.EnableSharingWithAwsOrganization,
       serviceToken |-> serviceToken(ResourceType.EnableSharingWithAwsOrganization),
       refs |-> {},
       properties |-> <<>>]))

(* new EnablePolicyType(scope, id, props) *)
EnablePolicyType(rs, id, props) ==
  Append(getOrCreateProvider(rs, ResourceType.EnablePolicyType),
    CustomResource(Child(id, "Resource"),
      [resourceType |-> ResourceType.EnablePolicyType,
       serviceToken |-> serviceToken(ResourceType.EnablePolicyType),
       refs |-> {},
       properties |-> [policyType |-> props.policyType]]))

(* a RegisterDelegatedAdministrator that registers the stack's own account *)
RegisterDelegatedAdministrator_stackAccount(rs, id, props) ==
  Append(getOrCreateProvider(rs, ResourceType.RegisterDelegatedAdministrator),
    CustomResource(Child(id, "Resource"),
      [resourceType |-> ResourceType.RegisterDelegatedAdministrator,
       serviceToken |-> serviceToken(ResourceType.RegisterDelegatedAdministrator),
       refs |-> {},
       properties |-> [accountId |-> Aws_ACCOUNT_ID,
                       servicePrincipal |-> props.servicePrincipal]]))

(* new RegisterDelegatedAdministrator(scope, id, props) *)
RegisterDelegatedAdministrator(rs, id, props) ==
  Append(getOrCreateProvider(rs, ResourceType.RegisterDelegatedAdministrator),
    CustomResource(Child(id, "Resource"),
      [resourceType |-> ResourceType.RegisterDelegatedAdministrator,
       serviceToken |-> serviceToken(ResourceType.RegisterDelegatedAdministrator),
       refs |-> {},
       properties |-> [accountId |-> props.accountId,
                       servicePrincipal |-> props.servicePrincipal]]))

----------------------------------------------------------------------------
(* accelerator/lib/stacks/security-stack.ts, known through its test: six   *)
(* providers (the test counts six functions and six roles and shows four   *)
(* of them; the key lookup is the resource the Macie and GuardDuty         *)
(* properties refer to, the EBS provider serves the ebsDefaultVolume-      *)
(* Encryption section), a log group for the Macie and the GuardDuty        *)
(* provider, and one custom resource per provider.                          *)

(* a custom resource of a provider that has no log group *)
ProviderResource(rs, id, uniqueid, refs, properties) ==
  Append(getOrCreateProvider(rs, uniqueid),
    CustomResource(Child(id, "Resource"),
      [resourceType |-> uniqueid, serviceToken |-> serviceToken(uniqueid),
       refs |-> refs, properties |-> properties]))

(* a custom resource that waits for the log group of its provider *)
LoggedProviderResource(rs, id, uniqueid, refs, properties, props) ==
  addDependency(
    ProviderLogGroup(ProviderResource(rs, id, uniqueid, refs, properties), uniqueid, props),
    Child(id, "Resource"), Child(ProviderId(uniqueid), "LogGroup"))

SsmParameterLookup(rs, id, props) ==
  ProviderResource(rs, id, ResourceType.SsmParameterLookup, {},
    [name |-> props.name, region |-> props.region])

MacieExportConfigClassification(rs, id, props) ==
  LoggedProviderResource(rs, id, ResourceType.MacieExportConfigClassification,
    {props.kmsKey.Ref},
    [bucketName |-> props.bucketName, keyPrefix |-> props.keyPrefix,
     kmsKeyArn |-> props.kmsKey, region |-> props.region],
    props)

GuardDutyPublishingDestination(rs, id, props) ==
  LoggedProviderResource(rs, id, ResourceType.GuardDutyPublishingDestination,
    {props.kmsKey.Ref},
    [bucketArn |-> props.bucketArn,
     exportDestinationType |-> props.exportDestinationType,
     kmsKeyArn |-> props.kmsKey, region |-> props.region],
    props)

EbsDefaultEncryption(rs, id, props) ==
  ProviderResource(rs, id, ResourceType.EbsDefaultEncryption, {props.kmsKey.Ref},
    [kmsKey |-> props.kmsKey])

PasswordPolicy(rs, id, props) ==
  ProviderResource(rs, id, ResourceType.PasswordPolicy, {},
    [allowUsersToChangePassword |-> props.allowUsersToChangePassword,
     hardExpiry |-> props.hardExpiry,
     requireUppercaseCharacters |-> props.requireUppercaseCharacters,
     requireLowercaseCharacters |-> props.requireLowercaseCharacters,
     requireSymbols |-> props.requireSymbols,
     requireNumbers |-> props.requireNumbers,
     minimumPasswordLength |-> props.minimumPasswordLength,
     passwordReusePrevention |-> props.passwordReusePrevention,
     maxPasswordAge |-> props.maxPasswordAge])

(* a SecurityHubStandards that lists the enabled standards only *)
SecurityHubStandards_enabledOnly(rs, id, props) ==
  LET Enabled(s) == s.enable
      enabled == SelectSeq(props.standards, Enabled)
  IN ProviderResource(rs, id, ResourceType.SecurityHubStandards, {},
       [region |-> props.region,
        standards |->
          [i \in 1..Len(enabled) |->
             [name |-> enabled[i].name,
              enable |-> enabled[i].enable,
              controlsToDisable |-> enabled[i].controlsToDisable]]])

SecurityHubStandards(rs, id, props) ==
  ProviderResource(rs, id, ResourceType.SecurityHubStandards, {},
    [region |-> props.region,
     standards |->
       [i \in 1..Len(props.standards) |->
          [name |-> props.standards[i].name,
           enable |-> props.standards[i].enable,
           controlsToDisable |-> props.standards[i].controlsToDisable]]])

(* a SecurityStack that sets the password policy of the class defaults *)
SecurityStack_defaultPasswordPolicy(props) ==
  LET key == Ref(Child(<<"AcceleratorKeyLookup">>, "Resource"))
      lookup ==
        SsmParameterLookup(<<>>, <<"AcceleratorKeyLookup">>,
          [name |-> "/accelerator/kms/key-arn", region |-> props.env.region])
      macie ==
        MacieExportConfigClassification(lookup, <<"AwsMacieUpdateExportConfigClassification">>,
          [bucketName |-> <<"aws-accelerator-org-macie-disc-repo-", props.auditAccountId, "-", Aws_REGION>>,
           keyPrefix |-> <<props.env.account, "-aws-macie-export-config">>,
           kmsKey |-> key, region |-> props.env.region,
           logRetentionInDays |-> props.logRetentionInDays])
      guardDuty ==
        GuardDutyPublishingDestination(macie, <<"GuardDutyPublishingDestination">>,
          [bucketArn |-> <<"arn:", Aws_PARTITION, ":s3:::aws-accelerator-org-gduty-pub-dest-",
                           props.auditAccountId, "-", props.env.region>>,
           exportDestinationType |->
             props.securityConfig.centralSecurityServices.guardduty.exportConfiguration.destinationType,
           kmsKey |-> key, region |-> props.env.region,
           logRetentionInDays |-> props.logRetentionInDays])
      ebs == EbsDefaultEncryption(guardDuty, <<"EbsDefaultVolumeEncryption">>, [kmsKey |-> key])
      passwordPolicy == PasswordPolicy(ebs, <<"IamPasswordPolicy">>, IamPasswordPolicyConfig)
  IN SecurityHubStandards(passwordPolicy, <<"SecurityHubStandards">>,
       [region |-> props.env.region,
        standards |-> props.securityConfig.centralSecurityServices.securityHub.standards])

(* new SecurityStack(app, id, props) *)
SecurityStack(props) ==
  LET key == Ref(Child(<<"AcceleratorKeyLookup">>, "Resource"))
      lookup ==
        SsmParameterLookup(<<>>, <<"AcceleratorKeyLookup">>,
          [name |-> "/accelerator/kms/key-arn", region |-> props.env.region])
      macie ==
        MacieExportConfigClassification(lookup, <<"AwsMacieUpdateExportConfigClassification">>,
          [bucketName |-> <<"aws-accelerator-org-macie-disc-repo-", props.auditAccountId, "-", Aws_REGION>>,
           keyPrefix |-> <<props.env.account, "-aws-macie-export-config">>,
           kmsKey |-> key, region |-> props.env.region,
           logRetentionInDays |-> props.logRetentionInDays])
      guardDuty ==
        GuardDutyPublishingDestination(macie, <<"GuardDutyPublishingDestination">>,
          [bucketArn |-> <<"arn:", Aws_PARTITION, ":s3:::aws-accelerator-org-gduty-pub-dest-",
                           props.auditAccountId, "-", props.env.region>>,
           exportDestinationType |->
             props.securityConfig.centralSecurityServices.guardduty.exportConfiguration.destinationType,
           kmsKey |-> key, region |-> props.env.region,
           logRetentionInDays |-> props.logRetentionInDays])
      ebs == EbsDefaultEncryption(guardDuty, <<"EbsDefaultVolumeEncryption">>, [kmsKey |-> key])
      passwordPolicy ==
        PasswordPolicy(ebs, <<"IamPasswordPolicy">>, props.securityConfig.iamPasswordPolicy)
  IN SecurityHubStandards(passwordPolicy, <<"SecurityHubStandards">>,
       [region |-> props.env.region,
        standards |-> props.securityConfig.centralSecurityServices.securityHub.standards])

----------------------------------------------------------------------------
(* A stack under construction, its synthesis and its deployment.  A plain  *)
(* cdk.Stack receives up to MaxConstructs constructs, in any order and     *)
(* with any of the props below; a SecurityStack is built in one step from  *)
(* a configuration that loadFromString returned.  CloudFormation creates a *)
(* resource of the synthesized template once every resource it depends on  *)
(* or refers to has been created.                                           *)

(* the id the next construct of the stack is given *)
NextId == <<(<<"First", "Second", "Third", "Fourth">>)[Len(constructs) + 1]>>

(* kmsKey and logRetentionInDays, which every construct of the tests takes *)
Logging == [kmsKey |-> "CustomKey", logRetentionInDays |-> 3653]

(* documents a SecurityStack is built from: the example with each password *)
(* policy and with lists of standards that differ in length, order and in  *)
(* what is enabled                                                          *)
StackDocuments ==
  {With(ExampleDocument, "iamPasswordPolicy", x) :
      x \in {ExampleIamPasswordPolicy,
             [ExampleIamPasswordPolicy EXCEPT !.hardExpiry = TRUE, !.minimumPasswordLength = 8],
             [ExampleIamPasswordPolicy EXCEPT !.requireSymbols = FALSE, !.maxPasswordAge = 0]}}
   \cup
  {With(ExampleDocument, "centralSecurityServices",
        [ExampleCentralSecurityServices EXCEPT !.securityHub.standards = x]) :
      x \in {<<>>,
             <<[name |-> "PCI DSS v3.2.1", enable |-> TRUE], ExampleStandard>>,
             <<ExampleStandard, [name |-> "PCI DSS v3.2.1", enable |-> TRUE]>>,
             <<[ExampleStandard EXCEPT !.enable = FALSE],
               [name |-> "CIS AWS Foundations Benchmark v1.2.0", enable |-> TRUE,
                controlsToDisable |-> <<"CloudTrail.1">>]>>}}

(* the environment and the accounts of the SecurityStack test *)
SecurityStackProps(config) ==
  [env |-> [account |-> "333333333333", region |-> "us-east-1"],
   auditAccountId |-> "222222222222",
   logRetentionInDays |-> 3653,
   securityConfig |-> config]

CanAdd ==
  /\ phase = "construct"
  /\ stackProps = None
  /\ Len(constructs) < MaxConstructs

Add(kind, props, rs) ==
  /\ constructs' = Append(constructs, [kind |-> kind, id |-> NextId, props |-> props])
  /\ resources' = rs
  /\ UNCHANGED <<phase, stackProps, created>>
  /\ UNCHANGED loaderVars

NewAccount ==
  /\ CanAdd
  /\ \E accountId \in {"111111111111", "222222222222"} :
       LET props == [accountId |-> accountId,
                     assumeRoleName |-> "AWSControlTowerExecution",
                     kmsKey |-> Logging.kmsKey,
                     logRetentionInDays |-> Logging.logRetentionInDays]
       IN Add("Account", props, Account(resources, NextId, props))

NewEndpointAddresses ==
  /\ CanAdd
  /\ \E endpointId \in {"TestEndpointId", "rslvr-in-0a1b2c3d"} :
       LET props == [endpointId |-> endpointId,
                     kmsKey |-> Logging.kmsKey,
                     logRetentionInDays |-> Logging.logRetentionInDays]
       IN Add("EndpointAddresses", props, EndpointAddresses(resources, NextId, props))

NewEnableSharingWithAwsOrganization ==
  /\ CanAdd
  /\ Add("EnableSharingWithAwsOrganization", Logging,
         EnableSharingWithAwsOrganization(resources, NextId, Logging))

NewEnablePolicyType ==
  /\ CanAdd
  /\ \E policyType \in {"SERVICE_CONTROL_POLICY", "TAG_POLICY"} :
       LET props == [policyType |-> policyType,
                     kmsKey |-> Logging.kmsKey,
                     logRetentionInDays |-> Logging.logRetentionInDays]
       IN Add("EnablePolicyType", props, EnablePolicyType(resources, NextId, props))

NewRegisterDelegatedAdministrator ==
  /\ CanAdd
  /\ \E servicePrincipal \in {"macie.amazonaws.com", "guardduty.amazonaws.com"},
        accountId \in {Aws_ACCOUNT_ID, "111111111111"} :
       LET props == [servicePrincipal |-> servicePrincipal,
                     accountId |-> accountId,
                     kmsKey |-> Logging.kmsKey,
                     logRetentionInDays |-> Logging.logRetentionInDays]
       IN Add("RegisterDelegatedAdministrator", props,
              RegisterDelegatedAdministrator(resources, NextId, props))

NewSecurityStack ==
  /\ phase = "construct"
  /\ stackProps = None
  /\ constructs = <<>>
  /\ \E d \in StackDocuments :
       LET loaded == loadFromString([kind |-> "mapping", doc |-> d])
           props == SecurityStackProps(loaded.result[1])
       IN /\ loaded.pc = "returned"
          /\ stackProps' = Some(props)
          /\ resources' = SecurityStack(props)
  /\ UNCHANGED <<phase, constructs, created>>
  /\ UNCHANGED loaderVars

(* Template.fromStack / cdk synth: the construct tree is final *)
Synth ==
  /\ phase = "construct"
  /\ Len(resources) > 0
  /\ phase' = "deploy"
  /\ UNCHANGED <<stackProps, constructs, resources, created>>
  /\ UNCHANGED loaderVars

(* CloudFormation creates one resource whose dependencies exist *)
Deploy ==
  /\ phase = "deploy"
  /\ \E i \in 1..Len(resources) :
       /\ resources[i].id \notin created
       /\ (resources[i].dependsOn \cup resources[i].refs) \subseteq created
       /\ created' = created \cup {resources[i].id}
  /\ UNCHANGED <<phase, stackProps, constructs, resources>>
  /\ UNCHANGED loaderVars

StackNext ==
  \/ NewAccount
  \/ NewEndpointAddresses
  \/ NewEnableSharingWithAwsOrganization
  \/ NewEnablePolicyType
  \/ NewRegisterDelegatedAdministrator
  \/ NewSecurityStack
  \/ Synth
  \/ Deploy

StackSpec == Init /\ [][StackNext]_vars

----------------------------------------------------------------------------
(* Properties                                                               *)

Loaders == {"load", "loadFromString"}

(* the content is the text of a document that passes the schema *)
Loadable(c) == c.kind = "mapping" /\ Validate(securityConfig, TRUE, c.doc)

(* the error yaml.load or t.parse raises on a content that is not loadable *)
UnderlyingError(c) == IF c.kind = "malformed" THEN YAMLException ELSE ParseError

RequiredSections ==
  {"centralSecurityServices", "accessAnalyzer", "iamPasswordPolicy",
   "awsConfig", "cloudWatch"}

(* the value a document writes at a path of keys, None when a key of the   *)
(* path is omitted                                                          *)
RECURSIVE At(_, _)
At(d, keys) ==
  IF keys = <<>> THEN Some(d)
  ELSE IF Head(keys) \in DOMAIN d THEN At(d[Head(keys)], Tail(keys))
  ELSE None

(* C1: whenever loadFromString is given a content that fails YAML parsing  *)
(* or schema validation it logs two error entries, the second carrying the *)
(* underlying error, throws 'could not load configuration' and returns no  *)
(* configuration.                                                           *)
C1_LoadFromStringFailure ==
  (op = "loadFromString" /\ ~Loadable(content[1])) =>
     /\ pc = "thrown"
     /\ error = "could not load configuration"
     /\ result = None
     /\ Len(log) = 2
     /\ log[1].level = "error"
     /\ log[2] = [level |-> "error", message |-> UnderlyingError(content[1])]

C1_Witness ==
  /\ op = "loadFromString"
  /\ pc = "thrown"
  /\ content[1].kind = "mapping"
  /\ Len(log) = 2

(* C2 as claimed: a content that fails to load makes load(dir) log a       *)
(* diagnostic and throw 'could not load configuration', as loadFromString  *)
(* does.                                                                    *)
C2_LoadFailureGeneric ==
  (op = "load" /\ content # None /\ ~Loadable(content[1])) =>
     /\ pc = "thrown"
     /\ error = "could not load configuration"
     /\ Len(log) = 2

(* C2 as amended: a content that fails to load makes load(dir) throw the   *)
(* underlying error of yaml.load or t.parse, with nothing logged and no    *)
(* configuration returned.                                                  *)
C2_LoadFailurePropagates ==
  (op = "load" /\ content # None /\ ~Loadable(content[1])) =>
     /\ pc = "thrown"
     /\ error = UnderlyingError(content[1])
     /\ error # "could not load configuration"
     /\ log = <<>>
     /\ result = None

C2_Witness ==
  /\ op = "load"
  /\ pc = "thrown"
  /\ content # None
  /\ content[1].kind = "mapping"
  /\ error = ParseError

(* C3: for a content that is valid YAML and passes the schema,             *)
(* loadFromString returns a configuration whose five required sections     *)
(* equal the validated input sections, and whose keyManagementService      *)
(* equals the input's when the input has one.                               *)
C3_SectionsEqualInput ==
  (op = "loadFromString" /\ Loadable(content[1])) =>
     /\ pc = "returned"
     /\ result # None
     /\ LET d == content[1].doc
            v == Decode(securityConfig, TRUE, d)
            cfg == result[1]
        IN /\ \A k \in RequiredSections : cfg[k] = v[k]
           /\ cfg.iamPasswordPolicy = d.iamPasswordPolicy
           /\ cfg.accessAnalyzer = d.accessAnalyzer
           /\ "keyManagementService" \in DOMAIN d =>
                 cfg.keyManagementService = v.keyManagementService

C3_Witness ==
  /\ op = "loadFromString"
  /\ pc = "returned"
  /\ "keyManagementService" \in DOMAIN content[1].doc
  /\ result[1].iamPasswordPolicy.maxPasswordAge = 90
  /\ Len(result[1].keyManagementService[1].keySets) = 2
  /\ result[1].keyManagementService[1].keySets[2].name = "BareKey"

(* C4: in a loaded configuration every optional field the document omits   *)
(* holds the default its class declares, at every depth: an omitted        *)
(* scpRevertChangesConfig is {enable: false}, and a keySets entry written  *)
(* without enableKeyRotation, enabled or removalPolicy has true, true and  *)
(* 'retain'.                                                                *)
C4_DefaultsAtEveryDepth ==
  (op \in Loaders /\ pc = "returned") =>
     LET d == content[1].doc
         cfg == result[1]
     IN /\ "scpRevertChangesConfig" \notin DOMAIN d.centralSecurityServices =>
              cfg.centralSecurityServices.scpRevertChangesConfig
                 = Some([enable |-> FALSE, snsTopicName |-> None])
        /\ "keyManagementService" \in DOMAIN d =>
              \A i \in DOMAIN d.keyManagementService.keySets :
                 LET k == d.keyManagementService.keySets[i]
                     r == cfg.keyManagementService[1].keySets[i]
                 IN /\ "enableKeyRotation" \notin DOMAIN k => r.enableKeyRotation = Some(TRUE)
                    /\ "enabled" \notin DOMAIN k => r.enabled = Some(TRUE)
                    /\ "removalPolicy" \notin DOMAIN k => r.removalPolicy = Some("retain")

(* C5: a document that leaves out one of the five required sections is     *)
(* rejected; one that leaves out only keyManagementService loads, and the  *)
(* loaded configuration's keyManagementService.keySets is the empty list.  *)
C5_RequiredSections ==
  (op \in Loaders /\ content # None /\ content[1].kind = "mapping") =>
     LET d == content[1].doc
     IN /\ (\E k \in RequiredSections : k \notin DOMAIN d) => pc = "thrown"
        /\ (Loadable(content[1]) /\ "keyManagementService" \notin DOMAIN d) =>
              /\ pc = "returned"
              /\ result[1].keyManagementService # None
              /\ result[1].keyManagementService[1].keySets = <<>>

(* C6: in every loaded configuration the Macie publishing frequency and    *)
(* the GuardDuty export frequency are FIFTEEN_MINUTES, ONE_HOUR or         *)
(* SIX_HOURS and the GuardDuty export destination type is S3; a document   *)
(* that writes another value for one of them is rejected.                   *)
C6_FrequencyAndDestinationEnums ==
  (op \in Loaders /\ content # None /\ content[1].kind = "mapping") =>
     LET d == content[1].doc
         freq == {"FIFTEEN_MINUTES", "ONE_HOUR", "SIX_HOURS"}
         mf == At(d, <<"centralSecurityServices", "macie", "policyFindingsPublishingFrequency">>)
         ef == At(d, <<"centralSecurityServices", "guardduty", "exportConfiguration", "exportFrequency">>)
         dt == At(d, <<"centralSecurityServices", "guardduty", "exportConfiguration", "destinationType">>)
     IN /\ pc = "returned" =>
             LET css == result[1].centralSecurityServices
             IN /\ css.macie.policyFindingsPublishingFrequency \in freq
                /\ css.guardduty.exportConfiguration.exportFrequency \in freq
                /\ css.guardduty.exportConfiguration.destinationType = "S3"
        /\ (mf # None /\ mf[1] \notin freq) => pc = "thrown"
        /\ (ef # None /\ ef[1] \notin freq) => pc = "thrown"
        /\ (dt # None /\ dt[1] # "S3") => pc = "thrown"

C6_Witness ==
  /\ op \in Loaders
  /\ pc = "returned"
  /\ result[1].centralSecurityServices.macie.policyFindingsPublishingFrequency = "SIX_HOURS"

(* C7: in every loaded configuration each entry of securityHub.standards   *)
(* is named by one of the five documented standards; a document with any   *)
(* other standard name is rejected.                                         *)
C7_StandardNames ==
  (op \in Loaders /\ content # None /\ content[1].kind = "mapping") =>
     LET d == content[1].doc
         names == {"AWS Foundational Security Best Practices v1.0.0",
                   "CIS AWS Foundations Benchmark v1.2.0",
                   "CIS AWS Foundations Benchmark v1.4.0",
                   "NIST Special Publication 800-53 Revision 5",
                   "PCI DSS v3.2.1"}
         st == At(d, <<"centralSecurityServices", "securityHub", "standards">>)
     IN /\ pc = "returned" =>
             \A i \in DOMAIN result[1].centralSecurityServices.securityHub.standards :
                result[1].centralSecurityServices.securityHub.standards[i].name \in names
        /\ (st # None /\ \E i \in DOMAIN st[1] :
                            "name" \in DOMAIN st[1][i] /\ st[1][i].name \notin names)
             => pc = "thrown"

C7_Witness ==
  /\ op \in Loaders
  /\ pc = "returned"
  /\ Len(result[1].centralSecurityServices.securityHub.standards) = 2
  /\ result[1].centralSecurityServices.securityHub.standards[2].name = "PCI DSS v3.2.1"

(* C8: a SecurityConfig constructed without values has an iamPasswordPolicy *)
(* whose nine fields equal their documented @default values, hardExpiry    *)
(* true among them.                                                         *)
C8_PasswordPolicyDefaults ==
  op = "new" =>
     result[1].iamPasswordPolicy =
        [allowUsersToChangePassword |-> TRUE,
         hardExpiry |-> TRUE,
         requireUppercaseCharacters |-> TRUE,
         requireLowercaseCharacters |-> TRUE,
         requireSymbols |-> TRUE,
         requireNumbers |-> TRUE,
         minimumPasswordLength |-> 14,
         passwordReusePrevention |-> 24,
         maxPasswordAge |-> 90]

(* C9: a document whose cloudWatch.logGroups is written as in the          *)
(* documented examples passes validation and loads into a configuration    *)
(* with two log groups.                                                     *)
C9_DocumentedLogGroupsLoad ==
  (op \in Loaders /\ content # None /\ content[1].kind = "mapping"
     /\ \E x \in DocumentedLogGroups :
           content[1].doc = With(ExampleDocument, "cloudWatch",
                                 With(ExampleCloudWatch, "logGroups", x))) =>
     /\ pc = "returned"
     /\ result[1].cloudWatch.logGroups # None
     /\ Len(result[1].cloudWatch.logGroups[1]) = 2

(* C10: a document whose rule set holds the custom rule of the documented  *)
(* AwsConfigRuleSet.rules example passes validation.                        *)
C10_DocumentedCustomRuleLoads ==
  (op \in Loaders /\ content # None /\ content[1].kind = "mapping"
     /\ "awsConfig" \in DOMAIN content[1].doc
     /\ content[1].doc = With(ExampleDocument, "awsConfig", content[1].doc.awsConfig)
     /\ content[1].doc.awsConfig \in
          {[ExampleAwsConfig EXCEPT !.ruleSets[1].rules = <<ExampleCustomRule>>],
           [ExampleAwsConfig EXCEPT !.ruleSets[1].rules = <<ExampleCustomRule, ExampleManagedRule>>]}) =>
     pc = "returned"

(* C18: load and loadFromString construct a SecurityConfig only after the  *)
(* parsed YAML has passed the schema; when file reading, YAML parsing or   *)
(* validation fails the constructor has not run and no configuration is    *)
(* observable.                                                              *)
C18_ConstructedOnlyAfterValidation ==
  op \in Loaders =>
     /\ ctorCalls > 0 => (content # None /\ Loadable(content[1]))
     /\ pc = "thrown" => (ctorCalls = 0 /\ result = None)

C18_Witness ==
  /\ op = "load"
  /\ pc = "thrown"
  /\ content = None
  /\ error = ENOENT
  /\ ctorCalls = 0

(* C19: getDelegatedAccountName answers the instance's                     *)
(* centralSecurityServices.delegatedAdminAccount: 'Audit' for a            *)
(* configuration constructed without values, and the document's non-empty  *)
(* account name for every loaded configuration.                             *)
C19_DelegatedAccountName ==
  /\ (op = "new" /\ pc = "returned") => getDelegatedAccountName(result[1]) = "Audit"
  /\ (op \in Loaders /\ pc = "returned") =>
        /\ getDelegatedAccountName(result[1])
             = content[1].doc.centralSecurityServices.delegatedAdminAccount
        /\ getDelegatedAccountName(result[1]) # ""

C19_Witness ==
  /\ op \in Loaders
  /\ pc = "returned"
  /\ getDelegatedAccountName(result[1]) = "SecurityTooling"

(* C20: load(dir) reads the one file security-config.yaml directly inside  *)
(* dir, and what it returns is what loadFromString returns for that file's *)
(* content.                                                                 *)
C20_LoadEqualsLoadFromString ==
  op = "load" =>
     /\ path # None
     /\ Len(path[1]) = 2
     /\ path[1][1] \in Dirs
     /\ path[1][2] = "security-config.yaml"
     /\ content # None =>
          LET s == loadFromString(content[1])
          IN /\ (pc = "returned") = (s.pc = "returned")
             /\ pc = "returned" => result = s.result

C20_Witness ==
  /\ op = "load"
  /\ pc = "returned"
  /\ path = Some(<<"config", "security-config.yaml">>)
  /\ result[1].iamPasswordPolicy.minimumPasswordLength = 8

(* Template.resourceCountIs: the resources of a type *)
OfType(type) == {i \in 1..Len(resources) : resources[i].type = type}

(* the resources of an id *)
WithId(id) == {i \in 1..Len(resources) : resources[i].id = id}

OfKind(kind) == {i \in 1..Len(constructs) : constructs[i].kind = kind}

(* C11: a stack holding exactly one EndpointAddresses, EnableSharingWith-  *)
(* AwsOrganization, EnablePolicyType or RegisterDelegatedAdministrator     *)
(* construct has exactly one custom resource of the construct's type,      *)
(* exactly one AWS::Lambda::Function and exactly one AWS::IAM::Role.       *)
C11_OneOfEach ==
  \A kind \in {"EndpointAddresses", "EnableSharingWithAwsOrganization",
               "EnablePolicyType", "RegisterDelegatedAdministrator"} :
     (Len(constructs) = 1 /\ constructs[1].kind = kind) =>
        /\ Cardinality(OfType(ResourceType[kind])) = 1
        /\ Cardinality(OfType("AWS::Lambda::Function")) = 1
        /\ Cardinality(OfType("AWS::IAM::Role")) = 1

C11_Witness ==
  /\ phase = "deploy"
  /\ Len(constructs) = 1
  /\ constructs[1].kind = "EndpointAddresses"
  /\ Cardinality(OfType(ResourceType.EndpointAddresses)) = 1

(* C12: the custom resource of an EndpointAddresses, EnablePolicyType or   *)
(* RegisterDelegatedAdministrator construct has the Arn of the provider's  *)
(* handler as ServiceToken and carries the caller's props unchanged:       *)
(* endpointId and the stack's region, policyType, accountId and            *)
(* servicePrincipal.                                                        *)
C12_PropsPassedThrough ==
  \A c \in 1..Len(constructs) :
     LET kind == constructs[c].kind
         props == constructs[c].props
     IN kind \in {"EndpointAddresses", "EnablePolicyType", "RegisterDelegatedAdministrator"} =>
          \E i \in WithId(Child(constructs[c].id, "Resource")) :
             LET r == resources[i]
             IN /\ r.type = ResourceType[kind]
                /\ r.properties.ServiceToken = GetAtt(Handler(r.type), "Arn")
                /\ \E h \in WithId(Handler(r.type)) :
                      resources[h].type = "AWS::Lambda::Function"
                /\ CASE kind = "EndpointAddresses" ->
                          /\ r.properties.endpointId = props.endpointId
                          /\ r.properties.region = Aws_REGION
                     [] kind = "EnablePolicyType" ->
                          r.properties.policyType = props.policyType
                     [] kind = "RegisterDelegatedAdministrator" ->
                          /\ r.properties.accountId = props.accountId
                          /\ r.properties.servicePrincipal = props.servicePrincipal

C12_Witness ==
  /\ phase = "deploy"
  /\ \E c \in 1..Len(constructs) :
        /\ constructs[c].kind = "RegisterDelegatedAdministrator"
        /\ constructs[c].props.accountId = "111111111111"
        /\ constructs[c].props.servicePrincipal = "macie.amazonaws.com"
        /\ Child(constructs[c].id, "Resource") \in created

PasswordPolicyFields ==
  {"allowUsersToChangePassword", "hardExpiry", "requireUppercaseCharacters",
   "requireLowercaseCharacters", "requireSymbols", "requireNumbers",
   "minimumPasswordLength", "passwordReusePrevention", "maxPasswordAge"}

(* C13: the Custom::IamUpdateAccountPasswordPolicy resource of a Security- *)
(* Stack carries each of the nine iamPasswordPolicy fields with the value  *)
(* the loaded configuration has for it.                                     *)
C13_PasswordPolicyResource ==
  stackProps # None =>
     /\ OfType(ResourceType.PasswordPolicy) # {}
     /\ \A i \in OfType(ResourceType.PasswordPolicy) :
           /\ PasswordPolicyFields \subseteq DOMAIN resources[i].properties
           /\ \A f \in PasswordPolicyFields :
                 resources[i].properties[f] = stackProps[1].securityConfig.iamPasswordPolicy[f]

C13_Witness ==
  /\ stackProps # None
  /\ \E i \in OfType(ResourceType.PasswordPolicy) :
        /\ resources[i].id \in created
        /\ resources[i].properties.hardExpiry = TRUE
        /\ resources[i].properties.minimumPasswordLength = 8

LoggedTypes ==
  {ENROLL_ACCOUNT_TYPE,
   ResourceType.MacieExportConfigClassification,
   ResourceType.GuardDutyPublishingDestination}

(* C15: the custom resources of the Account construct and of the Macie     *)
(* export-configuration and GuardDuty publishing-destination constructs    *)
(* each depend on the log group of their provider's handler, so none of    *)
(* them is ever created before that log group.                              *)
C15_LogGroupBeforeResource ==
  \A i \in 1..Len(resources) :
     resources[i].type \in LoggedTypes =>
        LET logGroup == Child(ProviderId(resources[i].type), "LogGroup")
        IN /\ logGroup \in resources[i].dependsOn
           /\ \E g \in WithId(logGroup) :
                 /\ resources[g].type = "AWS::Logs::LogGroup"
                 /\ resources[g].properties.LogGroupName.Ref = Handler(resources[i].type)
           /\ resources[i].id \in created => logGroup \in created

C15_Witness ==
  /\ phase = "deploy"
  /\ Cardinality(OfKind("Account")) = 2
  /\ \A i \in OfType(ENROLL_ACCOUNT_TYPE) : resources[i].id \in created
  /\ Child(ProviderId(ENROLL_ACCOUNT_TYPE), "LogGroup") \in created

(* C16: every provider function depends on the role of its own provider    *)
(* and has that role's Arn as Role, so no function is ever created before  *)
(* its role; a stack has as many provider functions as provider roles, six *)
(* of each in a SecurityStack.                                              *)
C16_RoleBeforeFunction ==
  /\ \A i \in OfType("AWS::Lambda::Function") :
        LET role == Child(SubSeq(resources[i].id, 1, 2), "Role")
        IN /\ role \in resources[i].dependsOn
           /\ resources[i].properties.Role = GetAtt(role, "Arn")
           /\ \E r \in WithId(role) : resources[r].type = "AWS::IAM::Role"
           /\ resources[i].id \in created => role \in created
  /\ Cardinality(OfType("AWS::Lambda::Function")) = Cardinality(OfType("AWS::IAM::Role"))
  /\ stackProps # None =>
        /\ Cardinality(OfType("AWS::Lambda::Function")) = 6
        /\ Cardinality(OfType("AWS::IAM::Role")) = 6

C16_Witness ==
  /\ stackProps # None
  /\ phase = "deploy"
  /\ \A i \in OfType("AWS::Lambda::Function") : resources[i].id \in created
  /\ Handler(ResourceType.GuardDutyPublishingDestination) \in created

(* C17: however many Account constructs a stack has received, and in       *)
(* whatever order with other constructs, it has exactly one Custom::Invite-*)
(* AccountToOrganization provider (one handler, one role), exactly one log *)
(* group named after the provider, and one custom resource per Account.    *)
C17_OneProviderManyAccounts ==
  OfKind("Account") # {} =>
     /\ Cardinality(WithId(Handler(ENROLL_ACCOUNT_TYPE))) = 1
     /\ Cardinality(WithId(Child(ProviderId(ENROLL_ACCOUNT_TYPE), "Role"))) = 1
     /\ Cardinality(WithId(Child(ProviderId(ENROLL_ACCOUNT_TYPE), "LogGroup"))) = 1
     /\ Cardinality({g \in OfType("AWS::Logs::LogGroup") :
                       resources[g].properties.LogGroupName.Ref = Handler(ENROLL_ACCOUNT_TYPE)}) = 1
     /\ Cardinality(OfType(ENROLL_ACCOUNT_TYPE)) = Cardinality(OfKind("Account"))
     /\ \A c \in OfKind("Account") :
           /\ Cardinality(WithId(Child(constructs[c].id, "Resource"))) = 1
           /\ \A i \in WithId(Child(constructs[c].id, "Resource")) :
                 /\ resources[i].type = ENROLL_ACCOUNT_TYPE
                 /\ resources[i].properties.accountId = constructs[c].props.accountId

C17_Witness ==
  /\ Len(constructs) = 3
  /\ constructs[1].kind = "Account"
  /\ constructs[2].kind = "EnablePolicyType"
  /\ constructs[3].kind = "Account"
  /\ constructs[1].props.accountId # constructs[3].props.accountId
  /\ Cardinality(OfType(ENROLL_ACCOUNT_TYPE)) = 2
  /\ phase = "deploy"

====
